---- MODULE Spec2Model ----
(***************************************************************************)
(* Model of tcrdist/ecdf.py: distance_ecdf, make_ecdf_step and gmean10.    *)
(*                                                                         *)
(* Numbers.  Distances, thresholds, weights and the pseudo count are       *)
(* integers.  A quotient the code computes with "/" is kept as the record  *)
(* [num, den] of its two operands, so that 0/0 (numpy: nan) and x/0        *)
(* (numpy: +-inf) stay visible; comparisons of quotients are defined below *)
(* the way IEEE-754 compares them.                                         *)
(*                                                                         *)
(* distance_ecdf fills its result row by row (for i in range(R)) and the   *)
(* rows of pwrect are read one per iteration; no iteration reads what      *)
(* another wrote.  The model keeps the row being read and the ecdf row     *)
(* being written; the environment supplies pwrect[i, :] when iteration i   *)
(* reads it.  Indices are 1-based: row i of the model is row i-1 of numpy. *)
(***************************************************************************)
EXTENDS Integers, Sequences, FiniteSets, TLC

VARIABLES
    call,          \* which function the caller invoked
    pc,            \* "start" | "loop" | "done" | "error"
    err,           \* the exception raised, "" when none
    \* ---- distance_ecdf
    shape,         \* pwrect.shape, <<R, C>>
    issparse,      \* sparse.issparse(pwrect)
    thresholds,    \* the caller's thresholds
    weights,       \* the caller's weights, or None
    pseudo_count,
    skip_diag,
    i,             \* number of loop iterations executed (index of the last row)
    row,           \* the caller's distances of row i, as a dense vector
    ecdf,          \* ecdf[i, :] as written by iteration i
    ret_alias,     \* the returned objects that are the caller's own objects
    \* ---- make_ecdf_step
    kind,          \* "ndarray" | "list": what the caller passed as arrays
    s_args,        \* the values passed: [thresholds, ecdf]
    s_thresholds,  \* the caller's thresholds object, now
    s_ecdf,        \* the caller's ecdf object, now
    opt,           \* add_mnx, add_mny, add_mnmn, enforce_mn, mn, xjitter
    rand,          \* np.random.rand(1), as a numerator over RandRes
    s_ret,         \* the returned (jx, y)
    \* ---- gmean10
    vec,           \* the caller's vec
    g_ret          \* the returned value, as the exponent of 10

vars == <<call, pc, err, shape, issparse, thresholds, weights, pseudo_count,
          skip_diag, i, row, ecdf, ret_alias, kind, s_args, s_thresholds,
          s_ecdf, opt, rand, s_ret, vec, g_ret>>

\* an optional argument: None, or the value given
None == [none |-> TRUE, v |-> <<>>]
Given(x) == [none |-> FALSE, v |-> x]

(***************************************************************************)
(* Bounds of the model.                                                    *)
(***************************************************************************)
MaxRows == 2
MaxCols == 2
MaxThr == 2
MaxLen == 2
RandRes == 4

Distances == {0, 1}
ThresholdValues == {0, 1}
WeightValues == {0, 1, 2}
PseudoCounts == {0, 1}

SeqsUpTo(S, n) == UNION {[1..k -> S] : k \in 0..n}
SeqsOfLen(S, n) == [1..n -> S]

RECURSIVE SumSeq(_)
SumSeq(s) == IF s = <<>> THEN 0 ELSE Head(s) + SumSeq(Tail(s))

(***************************************************************************)
(* Quotients as IEEE-754 sees them.                                        *)
(***************************************************************************)
Quot(n, d) == [num |-> n, den |-> d]
Sign(n) == IF n > 0 THEN 1 ELSE IF n < 0 THEN -1 ELSE 0
IsNaN(q) == q.den = 0 /\ q.num = 0
\* q1 <= q2 in floating point: false when either is nan
Abs(n) == n * Sign(n)
FLeq(q1, q2) ==
    /\ ~IsNaN(q1) /\ ~IsNaN(q2)
    /\ IF q1.den # 0 /\ q2.den # 0
       THEN q1.num * Sign(q1.den) * Abs(q2.den) <= q2.num * Sign(q2.den) * Abs(q1.den)
       ELSE IF q1.den # 0 THEN q2.num > 0
       ELSE IF q2.den # 0 THEN q1.num < 0
       ELSE Sign(q1.num) <= Sign(q2.num)
\* the same value (nan taken as a value, as numpy.testing does)
FSame(q1, q2) ==
    IF q1.den = 0 \/ q2.den = 0
    THEN q1.den = 0 /\ q2.den = 0 /\ Sign(q1.num) = Sign(q2.num)
    ELSE q1.num * q2.den = q2.num * q1.den
In01(q) ==
    /\ q.den # 0
    /\ 0 <= q.num * Sign(q.den)
    /\ q.num * Sign(q.den) <= q.den * Sign(q.den)

(***************************************************************************)
(* distance_ecdf                                                           *)
(***************************************************************************)
\* lines 45-48: weights defaults to np.ones(pwrect.shape[1])
Weights(w, C) == IF w.none THEN [j \in 1..C |-> 1] ELSE w.v

\* line 65
SumWeightsCount(w) == Len(w)
SumWeights(w) == SumSeq(w)

\* numpy broadcasting of two axis lengths
Broadcastable(a, b) == a = b \/ a = 1 \/ b = 1
BroadcastLen(a, b) == IF a = 1 THEN b ELSE a

Ok(v) == [ok |-> TRUE, val |-> v, err |-> ""]
Raise(e) == [ok |-> FALSE, val |-> <<>>, err |-> e]

\* lines 71-72: (row <= thresholds[None, :]) * weights[:, None], summed over
\* axis 0; row has shape (C, 1), weights[:, None] has shape (L, 1)
DenseNumerStrict(r, thr, w) ==
    LET n == BroadcastLen(Len(r), Len(w))
    IN  Ok([k \in 1..Len(thr) |->
              SumSeq([p \in 1..n |->
                 (IF r[IF Len(r) = 1 THEN 1 ELSE p] < thr[k] THEN 1 ELSE 0)
                   * w[IF Len(w) = 1 THEN 1 ELSE p]])])
DenseNumerAbove(r, thr, w) ==
    LET n == BroadcastLen(Len(r), Len(w))
    IN  Ok([k \in 1..Len(thr) |->
              SumSeq([p \in 1..n |->
                 (IF r[IF Len(r) = 1 THEN 1 ELSE p] >= thr[k] THEN 1 ELSE 0)
                   * w[IF Len(w) = 1 THEN 1 ELSE p]])])
DenseNumerBroadcast(r, thr, w) ==
    LET n == BroadcastLen(Len(r), Len(w))
    IN  Ok([k \in 1..Len(thr) |->
              SumSeq([p \in 1..n |->
                 (IF r[IF Len(r) = 1 THEN 1 ELSE p] <= thr[k] THEN 1 ELSE 0)
                   * w[IF Len(w) = 1 THEN 1 ELSE p]])])
DenseNumer(r, thr, w) ==
    IF Broadcastable(Len(r), Len(w))
    THEN DenseNumerBroadcast(r, thr, w)
    ELSE Raise("ValueError")

\* line 68: row = pwrect[i, :] of a CSR matrix: the stored entries of the row,
\* which are its nonzero entries; indices are column numbers
RowIndices(r) ==
    LET RECURSIVE Idx(_)
        Idx(j) == IF j > Len(r) THEN <<>>
                  ELSE IF r[j] # 0 THEN <<j>> \o Idx(j + 1) ELSE Idx(j + 1)
    IN  Idx(1)
RowData(r) ==
    LET indices == RowIndices(r)
    IN  [p \in 1..Len(indices) |-> r[indices[p]]]

\* line 69: (row.data[:, None] <= thresholds[None, :]) * weights[row.indices, None]
SparseNumerByPosition(indices, data, thr, w) ==
    IF \E p \in 1..Len(indices) : indices[p] > Len(w)
    THEN Raise("IndexError")
    ELSE Ok([k \in 1..Len(thr) |->
               SumSeq([p \in 1..Len(data) |->
                  (IF data[p] <= thr[k] THEN 1 ELSE 0) * w[p]])])
SparseNumer(indices, data, thr, w) ==
    IF \E p \in 1..Len(indices) : indices[p] > Len(w)
    THEN Raise("IndexError")
    ELSE Ok([k \in 1..Len(thr) |->
               SumSeq([p \in 1..Len(data) |->
                  (IF data[p] <= thr[k] THEN 1 ELSE 0) * w[indices[p]]])])

\* lines 74-76: numer - weights[i], denom - weights[i]
SkipDiag(numer, denom, w, n) ==
    IF n > Len(w) THEN Raise("IndexError")
    ELSE Ok([numer |-> [k \in 1..Len(numer) |-> numer[k] - w[n]],
             denom |-> denom - w[n]])

\* lines 66-77: one iteration of the loop, for row number n with dense
\* content r; the value is ecdf[n, :]
RowEcdf(sp, r, thr, wArg, pcnt, sd, n) ==
    LET w == Weights(wArg, Len(r))
        sum_weights == SumWeights(w)
        numer == IF sp THEN SparseNumer(RowIndices(r), RowData(r), thr, w)
                       ELSE DenseNumer(r, thr, w)
    IN  IF ~numer.ok THEN numer
        ELSE LET nd == IF sd THEN SkipDiag(numer.val, sum_weights, w, n)
                             ELSE Ok([numer |-> numer.val, denom |-> sum_weights])
             IN  IF ~nd.ok THEN nd
                 ELSE Ok([k \in 1..Len(thr) |->
                            Quot(nd.val.numer[k] + pcnt, nd.val.denom + pcnt)])

\* lines 55-56, 78: thresholds = np.asarray(thresholds) is the caller's own
\* object when that is an ndarray, and is what the function returns
AsArrayIsSame(k) == k = "ndarray"

IdleStep ==
    /\ s_args = <<>> /\ s_thresholds = <<>> /\ s_ecdf = <<>>
    /\ opt = <<>> /\ rand = 0 /\ s_ret = <<>>
IdleGmean == vec = <<>> /\ g_ret = <<>>
IdleEcdf ==
    /\ shape = <<0, 0>> /\ issparse = FALSE /\ thresholds = <<>>
    /\ weights = None /\ pseudo_count = 0 /\ skip_diag = FALSE
    /\ i = 0 /\ row = <<>> /\ ecdf = <<>>

MatchingLen(C) == {C}
OtherLen(C) == (1..(C + 1)) \ {C}

\* a call of distance_ecdf, with weights of a length that is the number of
\* columns (matching) or is not
InitEcdfWith(matching, kinds) ==
    /\ call = "distance_ecdf" /\ pc = "loop" /\ err = ""
    /\ shape \in (1..MaxRows) \X (1..MaxCols)
    /\ issparse \in BOOLEAN
    /\ thresholds \in SeqsUpTo(ThresholdValues, MaxThr)
    /\ weights \in {None} \cup
         {Given(w) : w \in UNION {SeqsOfLen(WeightValues, n) : n \in IF matching THEN MatchingLen(shape[2])
                                          ELSE OtherLen(shape[2])}}
    /\ pseudo_count \in PseudoCounts
    /\ skip_diag \in BOOLEAN
    /\ i = 0 /\ row = <<>> /\ ecdf = <<>>
    /\ ret_alias = {}
    /\ kind \in kinds
    /\ IdleStep /\ IdleGmean

InitEcdf == InitEcdfWith(TRUE, {"ndarray"})
InitEcdfMismatch ==
    /\ InitEcdfWith(FALSE, {"ndarray"})
    /\ ~weights.none

\* lines 66-77: the body of "for i in range(pwrect.shape[0])"
EcdfRow ==
    /\ call = "distance_ecdf" /\ pc = "loop" /\ i < shape[1]
    /\ \E r \in SeqsOfLen(Distances, shape[2]) :
         LET res == RowEcdf(issparse, r, thresholds, weights, pseudo_count,
                            skip_diag, i + 1)
         IN  /\ row' = r
             /\ i' = i + 1
             /\ IF res.ok
                THEN /\ ecdf' = res.val
                     /\ UNCHANGED <<pc, err>>
                ELSE /\ ecdf' = <<>>
                     /\ pc' = "error"
                     /\ err' = res.err
    /\ UNCHANGED <<call, shape, issparse, thresholds, weights, pseudo_count,
                   skip_diag, ret_alias, kind, s_args, s_thresholds, s_ecdf,
                   opt, rand, s_ret, vec, g_ret>>

\* line 78: return thresholds, ecdf
EcdfReturn ==
    /\ call = "distance_ecdf" /\ pc = "loop" /\ i = shape[1]
    /\ pc' = "done"
    /\ ret_alias' = IF AsArrayIsSame(kind) THEN {"thresholds"} ELSE {}
    /\ UNCHANGED <<call, err, shape, issparse, thresholds, weights, pseudo_count,
                   skip_diag, i, row, ecdf, kind, s_args, s_thresholds, s_ecdf,
                   opt, rand, s_ret, vec, g_ret>>

(***************************************************************************)
(* make_ecdf_step                                                          *)
(***************************************************************************)
StepValues == {0, 1, 2}
Mns == {<<0, 0>>, <<1, 1>>}
\* xjitter is taken a multiple of 2 * RandRes, so that every offset
\* (rand - 0.5) * xjitter is a whole number of the thresholds' unit
XJitters == {0, 2 * RandRes}

\* lines 105-106: np.asarray(x) is x itself when x is an ndarray, a new
\* array when x is a list
AsArray(k) == IF k = "ndarray" THEN "same" ELSE "copy"

\* lines 109-110: t[t < mn[0]] = mn[0]
EnforceMn(s, m) == [k \in 1..Len(s) |-> IF s[k] < m THEN m ELSE s[k]]

\* lines 108-121: the sequences t and y after the enforce/add options
Options(thr, e, o) ==
    LET t1 == IF o.enforce_mn THEN EnforceMn(thr, o.mn[1]) ELSE thr
        y1 == IF o.enforce_mn THEN EnforceMn(e, o.mn[2]) ELSE e
    IN  IF o.add_mnx /\ Len(y1) = 0 THEN Raise("IndexError")
        ELSE
        LET t2 == IF o.add_mnx THEN <<o.mn[1]>> \o t1 ELSE t1
            y2 == IF o.add_mnx THEN <<y1[1]>> \o y1 ELSE y1
        IN  IF o.add_mny /\ Len(t2) = 0 THEN Raise("IndexError")
            ELSE
            LET t3 == IF o.add_mny THEN <<t2[1]>> \o t2 ELSE t2
                y3 == IF o.add_mny THEN <<o.mn[2]>> \o y2 ELSE y2
                t4 == IF o.add_mnmn THEN <<o.mn[1]>> \o t3 ELSE t3
                y4 == IF o.add_mnmn THEN <<o.mn[2]>> \o y3 ELSE y3
            IN  Ok([t |-> t4, y |-> y4])

\* np.repeat(s, 2)
Repeat2(s) == [k \in 1..(2 * Len(s)) |-> s[(k + 1) \div 2]]

\* line 123: np.concatenate(([t[0]], np.repeat(t[1:].ravel(), 2)))
DoubleX(t) == <<t[1]>> \o Repeat2(Tail(t))

\* line 124: np.repeat(y.ravel(), 2)[:-1]
DoubleYDropFirst(y) == SubSeq(Repeat2(y), 2, 2 * Len(y))
DoubleY(y) == SubSeq(Repeat2(y), 1, 2 * Len(y) - 1)

\* line 126: (np.random.rand(1) - 0.5) * xjitter, rand = r / RandRes
Offset(r, xjitter) == ((2 * r - RandRes) * xjitter) \div (2 * RandRes)

\* lines 126-128: jx = t + offset; jx[0] = t[0]; jx[-1] = t[-1]
JitterFirstOnly(t, r, xjitter) ==
    LET jx == [k \in 1..Len(t) |-> t[k] + Offset(r, xjitter)]
    IN  [jx EXCEPT ![1] = t[1]]
Jitter(t, r, xjitter) ==
    LET jx == [k \in 1..Len(t) |-> t[k] + Offset(r, xjitter)]
        j0 == [jx EXCEPT ![1] = t[1]]
    IN  [j0 EXCEPT ![Len(t)] = t[Len(t)]]

\* lines 105-129: the returned (jx, y), for the draw r
MakeEcdfStep(thr, e, o, r) ==
    LET ty == Options(thr, e, o)
    IN  IF ~ty.ok THEN ty
        ELSE IF Len(ty.val.t) = 0 THEN Raise("IndexError")
        ELSE Ok([jx |-> Jitter(DoubleX(ty.val.t), r, o.xjitter),
                 y |-> DoubleY(ty.val.y)])

InitStepWith(kinds) ==
    /\ call = "make_ecdf_step" /\ pc = "start" /\ err = ""
    /\ kind \in kinds
    /\ \E n \in 0..MaxLen :
         s_args \in [thresholds : SeqsOfLen(StepValues, n),
                     ecdf : SeqsOfLen(StepValues, n)]
    /\ s_thresholds = s_args.thresholds
    /\ s_ecdf = s_args.ecdf
    /\ opt \in [add_mnx : BOOLEAN, add_mny : BOOLEAN, add_mnmn : BOOLEAN,
                enforce_mn : BOOLEAN, mn : Mns, xjitter : XJitters]
    /\ rand = 0 /\ s_ret = <<>> /\ ret_alias = {}
    /\ IdleEcdf /\ IdleGmean

InitStep == InitStepWith({"ndarray"})

\* lines 105-129: one call of make_ecdf_step
CallMakeEcdfStep ==
    /\ call = "make_ecdf_step" /\ pc = "start"
    \* lines 108-110 write through t and y, which are the caller's arrays
    \* when np.asarray returned its argument
    /\ s_thresholds' = IF opt.enforce_mn /\ AsArray(kind) = "same"
                       THEN EnforceMn(s_thresholds, opt.mn[1]) ELSE s_thresholds
    /\ s_ecdf' = IF opt.enforce_mn /\ AsArray(kind) = "same"
                 THEN EnforceMn(s_ecdf, opt.mn[2]) ELSE s_ecdf
    /\ IF MakeEcdfStep(s_thresholds, s_ecdf, opt, 0).ok
       THEN \E r \in 0..(RandRes - 1) :
              /\ rand' = r
              /\ s_ret' = MakeEcdfStep(s_thresholds, s_ecdf, opt, r).val
              /\ pc' = "done"
              /\ err' = ""
       ELSE /\ pc' = "error"
            /\ err' = MakeEcdfStep(s_thresholds, s_ecdf, opt, 0).err
            /\ UNCHANGED <<rand, s_ret>>
    /\ UNCHANGED <<call, shape, issparse, thresholds, weights, pseudo_count,
                   skip_diag, i, row, ecdf, ret_alias, kind, s_args, opt, vec,
                   g_ret>>

(***************************************************************************)
(* gmean10                                                                 *)
(***************************************************************************)
PowersOfTen == {1, 10, 100}
\* np.log10 on the powers of ten
Log10(v) == CHOOSE x \in 0..2 : 10 ^ x = v

\* lines 131-134: 10 ** np.mean(np.log10(vec)); the value is the exponent
Gmean10(v) == Quot(SumSeq([k \in 1..Len(v) |-> Log10(v[k])]), Len(v))

InitGmean ==
    /\ call = "gmean10" /\ pc = "start" /\ err = ""
    /\ kind \in {"ndarray", "list"}
    /\ vec \in SeqsUpTo(PowersOfTen, MaxLen + 1)
    /\ g_ret = <<>> /\ ret_alias = {}
    /\ IdleEcdf /\ IdleStep

CallGmean10 ==
    /\ call = "gmean10" /\ pc = "start"
    /\ g_ret' = Gmean10(vec)
    /\ pc' = "done"
    /\ UNCHANGED <<call, err, shape, issparse, thresholds, weights, pseudo_count,
                   skip_diag, i, row, ecdf, ret_alias, kind, s_args,
                   s_thresholds, s_ecdf, opt, rand, s_ret, vec>>

(***************************************************************************)
(* Specifications                                                          *)
(***************************************************************************)
\* distance_ecdf called with weights of one weight per column (or None)
Init == InitEcdf
Next == EcdfRow \/ EcdfReturn
Spec == Init /\ [][Next]_vars

\* distance_ecdf called with weights whose length is not the column count
MismatchSpec == InitEcdfMismatch /\ [][Next]_vars

\* make_ecdf_step
StepNext == CallMakeEcdfStep
StepSpec == InitStep /\ [][StepNext]_vars

\* any of the three functions, called with ndarrays or with lists
PureInit ==
    \/ InitEcdfWith(TRUE, {"ndarray", "list"})
    \/ InitStepWith({"ndarray", "list"})
    \/ InitGmean
PureNext == EcdfRow \/ EcdfReturn \/ CallMakeEcdfStep \/ CallGmean10
PureSpec == PureInit /\ [][PureNext]_vars

(***************************************************************************)
(* Properties                                                              *)
(***************************************************************************)
\* iteration i of distance_ecdf has written ecdf[i, :]
Processed == call = "distance_ecdf" /\ i >= 1 /\ pc \in {"loop", "done"}
NCols == shape[2]
W == Weights(weights, NCols)
Scales == {2, 3}

\* the sum of the weights of a set of columns
RECURSIVE WeightOver(_, _)
WeightOver(S, w) ==
    IF S = {} THEN 0
    ELSE LET j == CHOOSE x \in S : TRUE IN w[j] + WeightOver(S \ {j}, w)
Within(t) == {j \in 1..NCols : row[j] <= t}

\* the spec's scenario: matrix [[0,1,2,3],[1,0,1,5]], thresholds [0,1,2,3,5],
\* unit weights
ScenarioEcdf ==
    /\ RowEcdf(FALSE, <<0, 1, 2, 3>>, <<0, 1, 2, 3, 5>>, None, 0, FALSE, 1).val
         = <<Quot(1, 4), Quot(2, 4), Quot(3, 4), Quot(4, 4), Quot(4, 4)>>
    /\ RowEcdf(FALSE, <<1, 0, 1, 5>>, <<0, 1, 2, 3, 5>>, None, 0, FALSE, 2).val
         = <<Quot(1, 4), Quot(3, 4), Quot(3, 4), Quot(3, 4), Quot(4, 4)>>

\* C1: dense input, skip_diag off: ecdf has one row per row of pwrect and one
\* entry per threshold, and ecdf[i, t] is (the weight of the columns within
\* distance t, plus pseudo_count) over (the weight of all columns, plus
\* pseudo_count); the spec's 2 x 4 example gives the rows it states.
C1_DenseEcdf ==
    /\ (Processed /\ ~issparse /\ ~skip_diag) =>
         /\ i <= shape[1]
         /\ pc = "done" => i = shape[1]
         /\ Len(ecdf) = Len(thresholds)
         /\ \A k \in 1..Len(thresholds) :
              ecdf[k] = Quot(WeightOver(Within(thresholds[k]), W) + pseudo_count,
                             WeightOver(1..NCols, W) + pseudo_count)
    /\ ScenarioEcdf
C1_Witness ==
    /\ Processed /\ pc = "done" /\ ~issparse /\ ~skip_diag
    /\ shape = <<2, 2>> /\ row = <<1, 0>> /\ weights = Given(<<1, 2>>)
    /\ thresholds = <<0, 1>> /\ pseudo_count = 1
    /\ ecdf = <<Quot(3, 4), Quot(4, 4)>>

\* the dense row that counts like the sparse one: every unstored (zero) entry
\* moved beyond every threshold
RECURSIVE MaxOf(_)
MaxOf(s) == IF s = <<>> THEN 0
            ELSE IF Head(s) > MaxOf(Tail(s)) THEN Head(s) ELSE MaxOf(Tail(s))
FarRow(r, thr) == [j \in 1..Len(r) |-> IF r[j] = 0 THEN MaxOf(thr) + 1 ELSE r[j]]

\* C2 (as stated): on the CSR encoding of a matrix distance_ecdf returns what
\* it returns on the dense matrix, the unstored zeros counting as distance 0.
C2_SparseDenseSame ==
    (Processed /\ issparse) =>
        LET d == RowEcdf(FALSE, row, thresholds, weights, pseudo_count, skip_diag, i)
        IN  d.ok /\ ecdf = d.val
\* C2 (amended): on the CSR encoding distance_ecdf returns, or raises, what it
\* does on the dense matrix whose zero entries are replaced by a distance
\* greater than every threshold: an unstored entry is never counted in the
\* numerator, its weight is counted in the denominator.
C2_SparseAsFarDense ==
    (call = "distance_ecdf" /\ i >= 1 /\ issparse) =>
        LET d == RowEcdf(FALSE, FarRow(row, thresholds), thresholds, weights,
                         pseudo_count, skip_diag, i)
        IN  IF pc = "error"
            THEN ~d.ok /\ d.err = err
            ELSE d.ok /\ ecdf = d.val
C2_Witness ==
    /\ Processed /\ issparse /\ ~skip_diag /\ pseudo_count = 0
    /\ row = <<0, 1>> /\ weights = Given(<<2, 1>>) /\ thresholds = <<0, 1>>
    /\ ecdf = <<Quot(0, 3), Quot(1, 3)>>

UniformWeights == \A j \in 1..Len(W) : W[j] = W[1]

Denominator ==
    WeightOver(1..NCols, W) - (IF skip_diag THEN W[i] ELSE 0) + pseudo_count

\* C3: pseudo_count = 0 and uniform nonnegative weights (with skip_diag: the
\* row has its own column, at distance 0), on the rows whose denominator is
\* not zero: every entry of ecdf is in [0, 1].
C3_EcdfInUnitInterval ==
    (/\ Processed /\ pseudo_count = 0 /\ UniformWeights /\ Denominator # 0
     /\ skip_diag => (shape[1] = NCols /\ row[i] = 0)) =>
        \A k \in 1..Len(ecdf) : In01(ecdf[k])

\* C4 (as stated): along a row, a larger threshold never has a smaller ecdf.
C4_Monotone ==
    Processed =>
        \A k1, k2 \in 1..Len(thresholds) :
            thresholds[k1] < thresholds[k2] => FLeq(ecdf[k1], ecdf[k2])
\* C4 (amended): the same, for the rows whose denominator (the weight of all
\* columns, less weights[i] under skip_diag, plus pseudo_count) is positive;
\* a zero denominator makes the entries nan or infinite.
C4_MonotoneWhenDefined ==
    (Processed /\ Denominator > 0) =>
        \A k1, k2 \in 1..Len(thresholds) :
            thresholds[k1] < thresholds[k2] => FLeq(ecdf[k1], ecdf[k2])
C4_Witness ==
    /\ Processed /\ Denominator > 0 /\ thresholds = <<1, 0>> /\ row = <<1, 0>>
    /\ weights = Given(<<2, 1>>) /\ pseudo_count = 1 /\ ~skip_diag
    /\ ecdf = <<Quot(4, 4), Quot(2, 4)>>

ScaledEcdf(c) ==
    RowEcdf(issparse, row, thresholds, Given([j \in 1..Len(W) |-> c * W[j]]),
            pseudo_count, skip_diag, i)

\* C5 (as stated): weights c * w give the ecdf that weights w give.
C5_ScaleInvariant ==
    Processed =>
        \A c \in Scales :
            LET scaled == ScaledEcdf(c)
            IN  /\ scaled.ok
                /\ \A k \in 1..Len(ecdf) : FSame(scaled.val[k], ecdf[k])
\* C5 (amended): with pseudo_count = 0, weights c * w give the ecdf that
\* weights w give.
C5_ScaleInvariantNoPseudo ==
    (Processed /\ pseudo_count = 0) =>
        \A c \in Scales :
            LET scaled == ScaledEcdf(c)
            IN  /\ scaled.ok
                /\ \A k \in 1..Len(ecdf) : FSame(scaled.val[k], ecdf[k])
C5_Witness ==
    /\ Processed /\ pseudo_count = 0 /\ ~issparse /\ ~skip_diag
    /\ weights = Given(<<1, 2>>) /\ row = <<0, 1>> /\ thresholds = <<0>>
    /\ ecdf = <<Quot(1, 3)>>
    /\ ScaledEcdf(3).val = <<Quot(3, 9)>>

\* C6: weights whose length is not the number of columns make distance_ecdf
\* raise: no iteration completes with them.
C6_MismatchRaises ==
    (/\ call = "distance_ecdf" /\ i >= 1
     /\ ~weights.none /\ Len(weights.v) # NCols) => pc = "error"

Others == (1..NCols) \ {i}
SelfRow == Processed /\ skip_diag /\ shape[1] = NCols /\ row[i] = 0

\* C7: skip_diag on a square matrix with zero diagonal, dense or
\* sparse: ecdf[i, t] is (the weight of the columns other than i within
\* distance t, plus pseudo_count) over (the weight of the columns other than
\* i, plus pseudo_count).
C7_SelfExcluded ==
    SelfRow =>
        \A k \in 1..Len(thresholds) :
            thresholds[k] >= 0 =>
                ecdf[k] = Quot(WeightOver(Within(thresholds[k]) \ {i}, W) + pseudo_count,
                               WeightOver(Others, W) + pseudo_count)
\* C8: after a call the caller's arrays hold what they held before it and no
\* returned object is one of the caller's objects.
C8_Pure ==
    pc = "done" =>
        /\ ret_alias = {}
        /\ call = "make_ecdf_step" =>
             (s_thresholds = s_args.thresholds /\ s_ecdf = s_args.ecdf)

IsStepDone == call = "make_ecdf_step" /\ pc = "done"
\* t and v of the claim: the sequences after the options
StepT == Options(s_args.thresholds, s_args.ecdf, opt).val.t
StepV == Options(s_args.thresholds, s_args.ecdf, opt).val.y
NFlags == (IF opt.add_mnx THEN 1 ELSE 0) + (IF opt.add_mny THEN 1 ELSE 0)
            + (IF opt.add_mnmn THEN 1 ELSE 0)
NoFlags == [add_mnx |-> FALSE, add_mny |-> FALSE, add_mnmn |-> FALSE,
            enforce_mn |-> FALSE, mn |-> <<0, 0>>, xjitter |-> 0]

\* the spec's scenario: thresholds [1,2,3], ecdf [0.2,0.6,1.0] (in tenths), no
\* flags, no jitter
ScenarioStep ==
    \A r \in 0..(RandRes - 1) :
        MakeEcdfStep(<<1, 2, 3>>, <<2, 6, 10>>, NoFlags, r).val
          = [jx |-> <<1, 2, 2, 3, 3>>, y |-> <<2, 2, 6, 6, 10>>]

\* C9: xjitter = 0: with n the length after the options, x and y have length
\* 2n - 1, x = [t0, t1, t1, ..., t(n-1), t(n-1)] and
\* y = [v0, v0, ..., v(n-2), v(n-2), v(n-1)]; the spec's example holds
\* (values in tenths).
C9_StepShape ==
    /\ (IsStepDone /\ opt.xjitter = 0) =>
         LET n == Len(StepT)
         IN  /\ n >= 1
             /\ n = Len(s_args.thresholds) + NFlags
             /\ Len(StepV) = n
             /\ Len(s_ret.jx) = 2 * n - 1
             /\ Len(s_ret.y) = 2 * n - 1
             /\ \A k \in 1..(2 * n - 1) :
                  /\ s_ret.jx[k] = StepT[k \div 2 + 1]
                  /\ s_ret.y[k] = StepV[(k + 1) \div 2]
    /\ ScenarioStep
C9_Witness ==
    /\ IsStepDone /\ opt.xjitter = 0
    /\ opt.add_mnx /\ ~opt.add_mny /\ opt.add_mnmn /\ opt.enforce_mn
    /\ opt.mn = <<1, 1>>
    /\ s_args = [thresholds |-> <<0, 2>>, ecdf |-> <<0, 2>>]
    /\ s_ret = [jx |-> <<1, 1, 1, 1, 1, 2, 2>>, y |-> <<1, 1, 1, 1, 1, 1, 2>>]

\* C10: the first and last x returned are the first and last of the doubled,
\* un-jittered x; all interior x are shifted by one offset, which lies in
\* [-xjitter/2, xjitter/2) (0 when xjitter = 0); y is the doubled v whatever
\* the draw.
C10_JitterEnds ==
    IsStepDone =>
        LET m == 2 * Len(StepT) - 1
            X == [k \in 1..m |-> StepT[k \div 2 + 1]]
        IN  /\ Len(s_ret.jx) = m
            /\ s_ret.jx[1] = X[1]
            /\ s_ret.jx[m] = X[m]
            /\ \E off \in (-opt.xjitter)..opt.xjitter :
                 /\ -opt.xjitter <= 2 * off
                 /\ IF opt.xjitter > 0 THEN 2 * off < opt.xjitter ELSE off = 0
                 /\ \A k \in 2..(m - 1) : s_ret.jx[k] = X[k] + off
            /\ s_ret.y = [k \in 1..m |-> StepV[(k + 1) \div 2]]
C10_Witness ==
    /\ IsStepDone /\ opt.xjitter > 0 /\ rand = 0
    /\ ~opt.add_mnx /\ ~opt.add_mny /\ ~opt.add_mnmn /\ ~opt.enforce_mn
    /\ s_args.thresholds = <<0, 1>>
    /\ s_ret.jx = <<0, 1 - RandRes, 1>>

====
